---- MODULE Spec2Model ----
(***************************************************************************)
(* Model of the live-reload render loop of src/src/main.rs: the shader     *)
(* watcher thread, the mpsc channel, AppState (new, create_bindings,       *)
(* create_pipeline, resize, update, render) and the ApplicationHandler     *)
(* callbacks of App.                                                       *)
(*                                                                         *)
(* Time is counted in ticks of the monotonic clock (Instant); a file       *)
(* modification time is an ordinal: 0 is SystemTime::UNIX_EPOCH (and "no   *)
(* file"), every modification of the file advances it by one.              *)
(* An Option<T> is a sequence: << >> is None, <<x>> is Some(x).            *)
(***************************************************************************)
EXTENDS Integers, Sequences, FiniteSets, TLC

\* ------------------------------------------------------------------ bounds
\* longest file content, in bytes
MaxLen == 1
\* number of modifications of shader.wgsl
MaxMTime == 2
\* last tick of the monotonic clock
MaxNow == 2
\* longest time create_pipeline takes, in ticks
MaxBuild == 1
\* largest window dimension
MaxDim == 1
\* number of device alignments above the required minimum
MaxAlignSteps == 1
\* number of times the windowing collaborator activates the application
MaxActivations == 2

\* ------------------------------------------------------- program constants
\* Limits::min_uniform_buffer_offset_alignment required of the device
MinAlignment == 64
\* size_of::<f32>(): the time uniform
TimeBytes == 4
\* size_of::<[f32; 2]>(): the resolution uniform
ResolutionBytes == 8

\* the bytes of a shader file: "v" is text the backend accepts, "x" is text it
\* rejects, "u" is a byte that is not valid UTF-8
Bytes == {"v", "x", "u"}

\* INITIAL_FRAGMENT_SHADER: its text is not among the user's files
INITIAL_FRAGMENT_SHADER == <<"f">>

RECURSIVE SeqsUpTo(_)
SeqsUpTo(n) ==
    IF n = 0 THEN {<< >>}
    ELSE LET S == SeqsUpTo(n - 1)
         IN  S \cup {Append(s, b) : s \in {t \in S : Len(t) = n - 1}, b \in Bytes}

\* the contents shader.wgsl can have
Contents == SeqsUpTo(MaxLen)

\* the window sizes the windowing collaborator reports (PhysicalSize<u32>)
Sizes == (0..MaxDim) \X (0..MaxDim)

\* the values device.limits().min_uniform_buffer_offset_alignment can take:
\* multiples of 4, at least the required minimum
Alignments == {MinAlignment + 4 * k : k \in 0..MaxAlignSteps}

VARIABLES
    file,          \* content of shader.wgsl
    fileMTime,     \* its modification time; 0: the file does not exist
    now,           \* the monotonic clock
    deviceAlign,   \* the device's min_uniform_buffer_offset_alignment
    watchers,      \* the watcher threads, in spawn order
    channels,      \* the mpsc channels, one per watcher: pending values, Receiver alive
    phase,         \* "uninit" | "new" (inside AppState::new) | "run" | "exited"
    locals,        \* Option: the locals of AppState::new after spawn_watcher_thread
    state,         \* App::state: Option<AppState>
    redraw,        \* a RedrawRequested notification is due to the window
    frame,         \* the device, queue, surface and window calls of the last handler
    built          \* Option: the fragment_source of the last create_pipeline call

vars == <<file, fileMTime, now, deviceAlign, watchers, channels, phase, locals,
          state, redraw, frame, built>>

\* ------------------------------------------------------------ pure helpers
Max(a, b) == IF a >= b THEN a ELSE b

\* u32 as f32, Duration::as_secs_f32: exact on the values of this model (below 2^24)
F32(n) == n

\* one call on the device, queue, surface or window
Op(name, offset, size) == [op |-> name, offset |-> offset, size |-> size]

\* the graphics backend's validation of a WGSL fragment module: an empty module
\* has no fragment entry point, "x" is rejected text
Valid(source) == source # << >> /\ \A i \in 1..Len(source) : source[i] # "x"

\* Instant::elapsed
Elapsed(start, t) == t - start

\* a receive that takes the newest pending value
TryRecvNewest(pending) ==
    IF pending = << >> THEN << >> ELSE <<pending[Len(pending)]>>

\* a receive that leaves the received value in the channel
AfterRecvKeep(pending) == pending

\* mpsc::Receiver::try_recv(): the oldest pending value, if any
TryRecv(pending) == IF pending = << >> THEN << >> ELSE <<Head(pending)>>

\* what try_recv() leaves in the channel
AfterRecv(pending) == IF pending = << >> THEN << >> ELSE Tail(pending)

\* bindings in a buffer that holds one aligned slot only
CreateBindingsOneSlot(alignment) ==
    [buffer     |-> [size |-> alignment, time |-> 0, resolution |-> <<0, 0>>],
     bind_group |-> <<0, alignment>>]

\* AppState::create_bindings: the buffer (zero-initialised) and the offsets
\* of bindings 0 and 1. alignment is a u32 widened to u64: alignment * 2 does
\* not wrap
CreateBindings(alignment) ==
    [buffer     |-> [size |-> alignment * 2, time |-> 0,
                     resolution |-> <<0, 0>>],
     bind_group |-> <<0, alignment>>]

\* a build that keeps the pipeline built from the candidate whatever the
\* validation scope captured
CreatePipelineNoFallback(fallback_shader, fragment_source) ==
    [vertex   |-> "VERTEX_SHADER",
     fragment |-> IF fragment_source = << >> THEN fallback_shader
                  ELSE fragment_source[1]]

\* AppState::create_pipeline: the pipeline built first (t), the error the
\* validation scope captured, and the pipeline returned
CreatePipeline(fallback_shader, fragment_source) ==
    LET module == IF fragment_source = << >> THEN fallback_shader
                  ELSE fragment_source[1]
        t      == [vertex |-> "VERTEX_SHADER", fragment |-> module]
        error  == ~Valid(module)
    IN  IF error THEN [vertex |-> "VERTEX_SHADER", fragment |-> fallback_shader]
        ELSE t

\* a test that also fires on an unchanged modification time
ChangedOrSame(modified, last) == modified >= last

\* the watcher's test for a changed file
Changed(modified, last) == modified > last

\* the locals of the watcher closure when the thread starts
NewWatcher ==
    [pc |-> "open", pos |-> 0, buf |-> << >>, last |-> 0, modified |-> 0,
     sent |-> 0]

NewChannel == [pending |-> << >>, connected |-> TRUE]

\* the process is alive and thread i exists
Running(i) == phase \in {"new", "run"} /\ i \in 1..Len(watchers)

\* ------------------------------------------------------------ environment
\* shader.wgsl is created or rewritten, n times at most
FileWriteUpTo(n) ==
    /\ phase # "exited"
    /\ fileMTime < n
    /\ \E c \in Contents : file' = c
    /\ fileMTime' = fileMTime + 1
    /\ UNCHANGED <<now, deviceAlign, watchers, channels, phase, locals, state,
                   redraw, frame, built>>

\* shader.wgsl is created or rewritten
FileWrite == FileWriteUpTo(MaxMTime)

\* shader.wgsl is created, and not modified afterwards
FileCreate == FileWriteUpTo(1)

\* shader.wgsl is created and rewritten once
FileRewrite == FileWriteUpTo(2)

\* the monotonic clock advances
Tick ==
    /\ now < MaxNow
    /\ phase # "exited"
    /\ now' = now + 1
    /\ UNCHANGED <<file, fileMTime, deviceAlign, watchers, channels, phase,
                   locals, state, redraw, frame, built>>

\* the windowing collaborator invalidates the window on its own
Expose ==
    /\ phase = "run"
    /\ ~redraw
    /\ redraw' = TRUE
    /\ UNCHANGED <<file, fileMTime, now, deviceAlign, watchers, channels, phase,
                   locals, state, frame, built>>

\* ---------------------------------------------------------------- watcher
\* File::open("shader.wgsl") in the retry loop
WatcherOpen(i) ==
    /\ Running(i)
    /\ watchers[i].pc = "open"
    /\ \/ /\ fileMTime > 0
          /\ watchers' = [watchers EXCEPT ![i].pc = "poll"]
       \/ \* Err: log, sleep 1000 ms, retry
          UNCHANGED watchers
    /\ UNCHANGED <<file, fileMTime, now, deviceAlign, channels, phase, locals,
                   state, redraw, frame, built>>

\* f.metadata()?.modified() and the test modified > last
WatcherPoll(i) ==
    /\ Running(i)
    /\ watchers[i].pc = "poll"
    /\ \/ \* metadata() is Err: the ? operator returns from the closure
          watchers' = [watchers EXCEPT ![i].pc = "done"]
       \/ \* modified() is Err: log, sleep 1000 ms, continue
          UNCHANGED watchers
       \/ \* Ok(time)
          IF Changed(fileMTime, watchers[i].last)
          THEN watchers' = [watchers EXCEPT ![i].pc = "read",
                                            ![i].modified = fileMTime]
          ELSE UNCHANGED watchers
    /\ UNCHANGED <<file, fileMTime, now, deviceAlign, channels, phase, locals,
                   state, redraw, frame, built>>

\* str::from_utf8 on the bytes a read appended
Utf8(bytes) == \A j \in 1..Len(bytes) : bytes[j] # "u"

\* a watcher that records the observed modification time whatever became
\* of the read and the send
LastSeenAlways(w, published) == w.modified

\* last after read_to_string and send: last = modified follows a send that is Ok
LastSeen(w, published) == IF published THEN w.modified ELSE w.last

\* f.read_to_string(&mut buf), tx.send(buf.clone()), f.rewind()?, buf.clear()
WatcherRead(i) ==
    LET w     == watchers[i]
        avail == IF Len(file) > w.pos THEN Len(file) - w.pos ELSE 0
        data(k) == SubSeq(file, w.pos + 1, w.pos + k)
        \* the bytes read stay in buf unless they are not UTF-8
        appended(k) == IF Utf8(data(k)) THEN w.buf \o data(k) ELSE w.buf
        failed(k) == [pc |-> "poll", pos |-> w.pos + k, buf |-> appended(k),
                      last |-> LastSeen(w, FALSE), modified |-> 0, sent |-> w.sent]
    IN
    /\ Running(i)
    /\ w.pc = "read"
    /\ \/ \* the file is read to its end
          LET buf2 == appended(avail)
              pos2 == w.pos + avail
          IN  IF ~Utf8(data(avail))
              THEN \* Err(InvalidData): log
                   /\ watchers' = [watchers EXCEPT ![i] = failed(avail)]
                   /\ UNCHANGED channels
              ELSE \* Ok(bytes_read)
              IF channels[i].connected
              THEN /\ channels' = [channels EXCEPT
                                     ![i].pending = Append(@, buf2)]
                   /\ \/ \* rewind() is Ok
                         watchers' = [watchers EXCEPT ![i] =
                            [pc |-> "poll", pos |-> 0, buf |-> << >>,
                             last |-> LastSeen(w, TRUE), modified |-> 0,
                             sent |-> w.sent + 1]]
                      \/ \* rewind() is Err: ? returns from the closure
                         watchers' = [watchers EXCEPT ![i] =
                            [pc |-> "done", pos |-> pos2, buf |-> buf2,
                             last |-> LastSeen(w, TRUE), modified |-> 0,
                             sent |-> w.sent + 1]]
              ELSE \* send() is Err: warn; buf and the file position are kept
                   /\ watchers' = [watchers EXCEPT ![i] =
                            [pc |-> "poll", pos |-> pos2, buf |-> buf2,
                             last |-> LastSeen(w, FALSE), modified |-> 0,
                             sent |-> w.sent]]
                   /\ UNCHANGED channels
       \/ \* Err(e) of the operating system after k bytes: log
          \E k \in 0..avail :
             /\ watchers' = [watchers EXCEPT ![i] = failed(k)]
             /\ UNCHANGED channels
    /\ UNCHANGED <<file, fileMTime, now, deviceAlign, phase, locals, state,
                   redraw, frame, built>>

\* ------------------------------------------------------------ main thread
\* surface.configure
Configure(config) == Op("configure", config.width, config.height)

\* queue.write_buffer(&buffer, 0, bytes_of(&elapsed.as_secs_f32()))
WriteTime == Op("write_buffer", 0, TimeBytes)

\* queue.write_buffer(&buffer, self.alignment, bytes_of(&resolution))
WriteResolution(alignment) == Op("write_buffer", alignment, ResolutionBytes)

\* self.fragment_source_rx.try_recv(), with the number of values then pending
Poll(pending) == Op("try_recv", 0, Len(pending))

\* a handler made this call
Calls(ops, name) == \E j \in 1..Len(ops) : ops[j].op = name

\* a render that does not ask for the next redraw
RenderOpsNoRequest(acquired) ==
    IF acquired
    THEN <<Op("get_current_texture", 0, 0), Op("draw", 3, 1), Op("submit", 0, 0),
           Op("present", 0, 0)>>
    ELSE <<Op("get_current_texture_err", 0, 0)>>

\* a render that ends the event loop when the surface image is not acquired
RenderOpsExitOnError(acquired) ==
    IF acquired
    THEN <<Op("get_current_texture", 0, 0), Op("draw", 3, 1), Op("submit", 0, 0),
           Op("present", 0, 0), Op("request_redraw", 0, 0)>>
    ELSE <<Op("get_current_texture_err", 0, 0), Op("exit", 0, 0)>>

\* a render that presents the surface image before it submits the commands
RenderOpsPresentFirst(acquired) ==
    IF acquired
    THEN <<Op("get_current_texture", 0, 0), Op("draw", 3, 1), Op("present", 0, 0),
           Op("submit", 0, 0), Op("request_redraw", 0, 0)>>
    ELSE <<Op("get_current_texture_err", 0, 0)>>

\* AppState::render after get_current_texture() returned: the calls it makes
RenderOps(acquired) ==
    IF acquired
    THEN <<Op("get_current_texture", 0, 0), Op("draw", 3, 1), Op("submit", 0, 0),
           Op("present", 0, 0), Op("request_redraw", 0, 0)>>
    ELSE <<Op("get_current_texture_err", 0, 0)>>

\* self.state = Some(state) drops the AppState held before, and with it its
\* Receiver and the values pending in it
Dropped(old, chans) ==
    IF old = << >> THEN chans
    ELSE [chans EXCEPT ![old[1].rx] = [pending |-> << >>, connected |-> FALSE]]

\* the process ends after the call named call; App::state is dropped and
\* the watcher threads end with the process
Terminate(call) ==
    /\ phase' = "exited"
    /\ frame' = <<Op(call, 0, 0)>>
    /\ watchers' = << >>
    /\ channels' = << >>
    /\ locals' = << >>
    /\ state' = << >>
    /\ redraw' = FALSE

\* el.exit(): run_app and main return
Exit == Terminate("exit")

\* a panic on the main thread (expect, unwrap) unwinds out of run_app and main
Panic == Terminate("panic")

\* App::resumed when the application is in one of Phases, up to and including
\* spawn_watcher_thread() inside AppState::new
ResumedIn(Phases) ==
    /\ phase \in Phases
    /\ \/ \* create_surface, request_adapter or request_device is Err:
          \* tracing::error! and el.exit()
          Exit
       \/ \* create_window is Err (expect) or get_default_config is None
          \* (unwrap)
          Panic
       \/ \E w \in 1..MaxDim, h \in 1..MaxDim :
             LET config   == [width |-> w, height |-> h]
                 bindings == CreateBindings(deviceAlign)
             IN  /\ locals' = <<[config          |-> config,
                                 alignment       |-> deviceAlign,
                                 buffer          |-> bindings.buffer,
                                 bind_group      |-> bindings.bind_group,
                                 fallback_shader |-> INITIAL_FRAGMENT_SHADER,
                                 rx              |-> Len(watchers) + 1]>>
                 /\ watchers' = Append(watchers, NewWatcher)
                 /\ channels' = Append(channels, NewChannel)
                 /\ phase' = "new"
                 /\ frame' = <<Configure(config)>>
                 /\ redraw' = TRUE
                 /\ state' = state
    /\ UNCHANGED <<file, fileMTime, now, deviceAlign, built>>

\* App::resumed on the first activation: self.state is None
Resumed == ResumedIn({"uninit"})

\* App::resumed on a later activation: resumed() does not look at self.state,
\* it creates a window and calls AppState::new again
ResumedAgain ==
    /\ Len(watchers) < MaxActivations
    /\ ResumedIn({"run"})

\* the rest of AppState::new: try_recv(), create_pipeline, time: Instant::now(),
\* and self.state = Some(state) in App::resumed; create_pipeline takes a time
\* in Durations
NewFinishIn(Durations) ==
    /\ phase = "new"
    /\ \E d \in Durations :
          LET l               == locals[1]
              fragment_source == TryRecv(channels[l.rx].pending)
              render_pipeline == CreatePipeline(l.fallback_shader, fragment_source)
          IN  /\ now + d <= MaxNow
              /\ now' = now + d
              /\ channels' = [Dropped(state, channels) EXCEPT
                                 ![l.rx].pending = AfterRecv(@)]
              /\ built' = fragment_source
              /\ frame' = Append(frame, Poll(channels[l.rx].pending))
              /\ state' = <<[render_pipeline |-> render_pipeline,
                             config          |-> l.config,
                             buffer          |-> l.buffer,
                             bind_group      |-> l.bind_group,
                             time            |-> now',
                             alignment       |-> l.alignment,
                             fallback_shader |-> l.fallback_shader,
                             rx              |-> l.rx]>>
    /\ locals' = << >>
    /\ phase' = "run"
    /\ UNCHANGED <<file, fileMTime, deviceAlign, watchers, redraw>>

NewFinish == NewFinishIn(0..MaxBuild)

\* AppState::new where create_pipeline takes less than a tick
NewFinishInstant == NewFinishIn({0})

\* the notifications App::window_event tells apart
WindowEvents == {"Resized", "CloseRequested", "Destroyed", "RedrawRequested", "other"}

\* App::window_event before the first activation: self.state is None and
\* the handler returns
NotifiedUninitialized ==
    /\ phase = "uninit"
    /\ \E event \in WindowEvents : state = << >>
    /\ UNCHANGED vars

\* a resize that adds the reported size to the resolution uniform
ResizeAccumulate(st, w, h) ==
    LET config == [st.config EXCEPT !.width = Max(w, 1), !.height = Max(h, 1)]
    IN  [state |-> [st EXCEPT
                      !.config = config,
                      !.buffer.resolution = <<@[1] + F32(w), @[2] + F32(h)>>],
         frame |-> <<Configure(config), WriteResolution(st.alignment)>>]

\* a resize that configures the surface with the reported size as it is
ResizeUnclamped(st, w, h) ==
    LET config == [st.config EXCEPT !.width = w, !.height = h]
    IN  [state |-> [st EXCEPT
                      !.config = config,
                      !.buffer.resolution = <<F32(w), F32(h)>>],
         frame |-> <<Configure(config), WriteResolution(st.alignment)>>]

\* AppState::resize: the AppState it leaves and the calls it makes
Resize(st, w, h) ==
    LET config == [st.config EXCEPT !.width = Max(w, 1), !.height = Max(h, 1)]
    IN  [state |-> [st EXCEPT
                      !.config = config,
                      !.buffer.resolution = <<F32(w), F32(h)>>],
         frame |-> <<Configure(config), WriteResolution(st.alignment)>>]

\* WindowEvent::Resized: AppState::resize when App::state is Some
Resized ==
    /\ phase = "run"
    /\ UNCHANGED <<file, fileMTime, now, deviceAlign, watchers, channels, phase,
                   locals, redraw, built>>
    /\ \E size \in Sizes :
          IF state = << >> THEN UNCHANGED <<state, frame>>
          ELSE LET resized == Resize(state[1], size[1], size[2])
               IN  /\ state' = <<resized.state>>
                   /\ frame' = resized.frame

\* WindowEvent::CloseRequested | WindowEvent::Destroyed: el.exit()
CloseRequested ==
    /\ phase = "run"
    /\ IF state = << >>
       THEN UNCHANGED <<phase, frame, watchers, channels, locals, state, redraw>>
       ELSE Exit
    /\ UNCHANGED <<file, fileMTime, now, deviceAlign, built>>

\* an update() that rebuilds the pipeline whatever the poll returned
ReloadAlways(fragment_source) == TRUE

\* AppState::update: if let Ok(fragment_source) = try_recv()
Reload(fragment_source) == fragment_source # << >>

\* WindowEvent::RedrawRequested: AppState::update, then AppState::render;
\* create_pipeline takes a time in Durations
RedrawIn(Durations) ==
    /\ phase = "run"
    /\ redraw
    /\ IF state = << >>
       THEN /\ redraw' = FALSE
            /\ UNCHANGED <<now, channels, state, frame, built, phase>>
       ELSE \E d \in Durations, acquired \in BOOLEAN :
          LET st              == state[1]
              fragment_source == TryRecv(channels[st.rx].pending)
              reload          == Reload(fragment_source)
              \* update(): self.time = Instant::now() precedes create_pipeline
              time            == IF reload THEN now ELSE st.time
              render_pipeline == IF reload
                                 THEN CreatePipeline(st.fallback_shader,
                                                     fragment_source)
                                 ELSE st.render_pipeline
              after           == IF reload THEN now + d ELSE now
              elapsed         == Elapsed(time, after)
          IN  /\ after <= MaxNow
              /\ reload \/ d = 0
              /\ now' = after
              /\ channels' = [channels EXCEPT ![st.rx].pending = AfterRecv(@)]
              /\ built' = IF reload THEN fragment_source ELSE built
              /\ state' = <<[st EXCEPT !.time = time,
                                       !.render_pipeline = render_pipeline,
                                       !.buffer.time = F32(elapsed)]>>
              /\ frame' = <<Poll(channels[st.rx].pending), WriteTime>>
                           \o RenderOps(acquired)
              /\ redraw' = Calls(frame', "request_redraw")
              /\ phase' = IF Calls(frame', "exit") THEN "exited" ELSE phase
    /\ UNCHANGED <<file, fileMTime, deviceAlign, watchers, locals>>

RedrawRequested == RedrawIn(0..MaxBuild)

\* a frame where create_pipeline takes less than a tick
RedrawInstant == RedrawIn({0})

\* -------------------------------------------------------- specification
Init ==
    /\ file = << >>
    /\ fileMTime = 0
    /\ now = 0
    /\ deviceAlign \in Alignments
    /\ watchers = << >>
    /\ channels = << >>
    /\ phase = "uninit"
    /\ locals = << >>
    /\ state = << >>
    /\ redraw = FALSE
    /\ frame = << >>
    /\ built = << >>

Next ==
    \/ FileWrite
    \/ Tick
    \/ Expose
    \/ \E i \in 1..Len(watchers) : WatcherOpen(i)
    \/ \E i \in 1..Len(watchers) : WatcherPoll(i)
    \/ \E i \in 1..Len(watchers) : WatcherRead(i)
    \/ Resumed
    \/ NewFinish
    \/ Resized
    \/ CloseRequested
    \/ RedrawRequested

Spec == Init /\ [][Next]_vars

\* the device reports exactly the required alignment
InitMinAlign == Init /\ deviceAlign = MinAlignment

\* the watcher, the file and the frames that drain the channel; the clock
\* does not advance
NextWatcher ==
    \/ FileWrite
    \/ Expose
    \/ \E i \in 1..Len(watchers) : WatcherOpen(i)
    \/ \E i \in 1..Len(watchers) : WatcherPoll(i)
    \/ \E i \in 1..Len(watchers) : WatcherRead(i)
    \/ Resumed
    \/ NewFinishInstant
    \/ RedrawInstant

SpecWatcher == InitMinAlign /\ [][NextWatcher]_vars

\* watcher i's poll finds the file changed
PollChanged(i) == WatcherPoll(i) /\ watchers'[i].pc = "read"

\* watcher i's read succeeds and the content is sent
ReadSent(i) == WatcherRead(i) /\ watchers'[i].sent > watchers[i].sent

\* SpecWatcher with the scheduling the program runs under: the windowing
\* collaborator activates the application and keeps delivering
\* RedrawRequested, the main thread finishes AppState::new, the watcher
\* thread is scheduled for every step it can take, and a metadata query or a
\* read that is retried again and again does not fail for ever
SpecLive ==
    /\ InitMinAlign
    /\ [][NextWatcher]_vars
    /\ WF_vars(Resumed)
    /\ WF_vars(NewFinishInstant)
    /\ WF_vars(Expose)
    /\ WF_vars(RedrawInstant)
    /\ WF_vars(\E i \in 1..Len(watchers) : WatcherOpen(i))
    /\ WF_vars(\E i \in 1..Len(watchers) : WatcherPoll(i))
    /\ WF_vars(\E i \in 1..Len(watchers) : WatcherRead(i))
    /\ SF_vars(\E i \in 1..Len(watchers) : PollChanged(i))
    /\ SF_vars(\E i \in 1..Len(watchers) : ReadSent(i))

\* the watcher and the frames, with the clock
NextClock ==
    \/ FileWrite
    \/ Tick
    \/ Expose
    \/ \E i \in 1..Len(watchers) : WatcherOpen(i)
    \/ \E i \in 1..Len(watchers) : WatcherPoll(i)
    \/ \E i \in 1..Len(watchers) : WatcherRead(i)
    \/ Resumed
    \/ NewFinish
    \/ RedrawRequested

SpecClock == InitMinAlign /\ [][NextClock]_vars

\* every window notification, the clock, and a shader.wgsl that is created
\* once
NextWindow ==
    \/ FileCreate
    \/ Tick
    \/ Expose
    \/ \E i \in 1..Len(watchers) : WatcherOpen(i)
    \/ \E i \in 1..Len(watchers) : WatcherPoll(i)
    \/ \E i \in 1..Len(watchers) : WatcherRead(i)
    \/ Resumed
    \/ NewFinish
    \/ Resized
    \/ CloseRequested
    \/ RedrawRequested

SpecWindow == InitMinAlign /\ [][NextWindow]_vars

\* the main thread alone on every device: shader.wgsl is never created
NextMain ==
    \/ Tick
    \/ Expose
    \/ \E i \in 1..Len(watchers) : WatcherOpen(i)
    \/ Resumed
    \/ NewFinish
    \/ Resized
    \/ CloseRequested
    \/ RedrawRequested

SpecMain == Init /\ [][NextMain]_vars

\* the frames and the watcher, with the clock: the window keeps its size
NextFrame ==
    \/ FileCreate
    \/ Tick
    \/ Expose
    \/ \E i \in 1..Len(watchers) : WatcherOpen(i)
    \/ \E i \in 1..Len(watchers) : WatcherPoll(i)
    \/ \E i \in 1..Len(watchers) : WatcherRead(i)
    \/ Resumed
    \/ NewFinish
    \/ CloseRequested
    \/ RedrawRequested

SpecFrame == InitMinAlign /\ [][NextFrame]_vars

\* the window is resized between the frames; time passes while pipelines
\* are built
NextResize ==
    \/ FileCreate
    \/ Expose
    \/ \E i \in 1..Len(watchers) : WatcherOpen(i)
    \/ \E i \in 1..Len(watchers) : WatcherPoll(i)
    \/ \E i \in 1..Len(watchers) : WatcherRead(i)
    \/ Resumed
    \/ NewFinish
    \/ Resized
    \/ RedrawRequested

SpecResize == InitMinAlign /\ [][NextResize]_vars

\* the watcher thread and the file, while the main thread handles no
\* notification after AppState::new
NextPoll ==
    \/ FileWrite
    \/ \E i \in 1..Len(watchers) : WatcherOpen(i)
    \/ \E i \in 1..Len(watchers) : WatcherPoll(i)
    \/ \E i \in 1..Len(watchers) : WatcherRead(i)
    \/ Resumed
    \/ NewFinishInstant

SpecPoll == InitMinAlign /\ [][NextPoll]_vars

\* the main thread alone, with notifications before the first activation
NextStartup ==
    \/ NotifiedUninitialized
    \/ Tick
    \/ Expose
    \/ \E i \in 1..Len(watchers) : WatcherOpen(i)
    \/ Resumed
    \/ NewFinish
    \/ Resized
    \/ CloseRequested
    \/ RedrawRequested

SpecStartup == Init /\ [][NextStartup]_vars

\* shader.wgsl is written twice and the frames drain the channel; the clock
\* does not advance
NextDrain ==
    \/ FileRewrite
    \/ Expose
    \/ \E i \in 1..Len(watchers) : WatcherOpen(i)
    \/ \E i \in 1..Len(watchers) : WatcherPoll(i)
    \/ \E i \in 1..Len(watchers) : WatcherRead(i)
    \/ Resumed
    \/ NewFinishInstant
    \/ RedrawInstant

SpecDrain == InitMinAlign /\ [][NextDrain]_vars

\* the application is activated more than once
NextActivate ==
    \/ FileCreate
    \/ Expose
    \/ \E i \in 1..Len(watchers) : WatcherOpen(i)
    \/ \E i \in 1..Len(watchers) : WatcherPoll(i)
    \/ \E i \in 1..Len(watchers) : WatcherRead(i)
    \/ Resumed
    \/ ResumedAgain
    \/ NewFinishInstant
    \/ RedrawInstant

SpecActivate == InitMinAlign /\ [][NextActivate]_vars

\* ------------------------------------------------------------------ claims
Last(s) == s[Len(s)]

\* watcher i sent a value in this step
Sent(i) ==
    /\ i \in 1..Len(channels)
    /\ Len(channels'[i].pending) > Len(channels[i].pending)

\* C1: the watcher thread never terminates once spawned, whatever the outcomes
\* of open, metadata, modified, read, rewind and send are.
C1_WatcherNeverTerminates ==
    \A i \in 1..Len(watchers) : watchers[i].pc # "done"

\* C3: every value the watcher publishes is the complete content the file has
\* in the poll that published it (not partial, not empty for a non-empty file,
\* nothing left over from an earlier read).
C3_PublishedIsFileContent ==
    [][\A i \in 1..Len(channels) :
          Sent(i) => Last(channels'[i].pending) = file]_vars

\* C7: the watcher sends at most one value per strict advance of the file's
\* modification time (the number of sends never exceeds the last-seen time,
\* which never exceeds the file's), and a poll sends only when the time it
\* observed is strictly newer than last-seen, one value, and then advances
\* last-seen to it.
C7_Debounce ==
    /\ [](\A i \in 1..Len(watchers) :
            /\ watchers[i].sent <= watchers[i].last
            /\ watchers[i].last <= fileMTime)
    /\ [][\A i \in 1..Len(channels) :
            Sent(i) =>
               /\ watchers[i].modified > watchers[i].last
               /\ watchers'[i].last = watchers[i].modified
               /\ Len(channels'[i].pending) = Len(channels[i].pending) + 1
               /\ watchers'[i].sent = watchers[i].sent + 1]_vars

\* two advances of the modification time were seen and two values sent
C7_Witness ==
    \E i \in 1..Len(watchers) :
       /\ watchers[i].sent = 2
       /\ watchers[i].last = 2
       /\ watchers[i].pc = "poll"

\* App::state is Some: the Ready state
Ready == phase = "run" /\ state # << >>

\* a RedrawRequested notification is handled in the Ready state in this step
HandledRedraw == Ready /\ RedrawRequested

\* the values pending for the render loop
Pending == channels[state[1].rx].pending

\* the fragment program create_pipeline is to select for a candidate
Selected(candidate) ==
    IF candidate = << >> \/ ~Valid(candidate[1]) THEN INITIAL_FRAGMENT_SHADER
    ELSE candidate[1]

\* C2: create_pipeline always returns a pipeline, with the fallback fragment
\* program if and only if no candidate was supplied or the candidate failed
\* validation, and with the candidate otherwise; at startup and on every reload.
C2_FallbackIffNoneOrInvalid ==
    state # << >> =>
       /\ state[1].render_pipeline.vertex = "VERTEX_SHADER"
       /\ state[1].render_pipeline.fragment = Selected(built)
       /\ state[1].render_pipeline.fragment = INITIAL_FRAGMENT_SHADER
             <=> (built = << >> \/ ~Valid(built[1]))

\* an invalid candidate was received and the fallback program is installed
C2_Witness ==
    /\ Ready
    /\ built # << >>
    /\ ~Valid(built[1])
    /\ state[1].render_pipeline.fragment = INITIAL_FRAGMENT_SHADER

\* C4: once shader.wgsl has stopped changing (it is modified MaxMTime times
\* at most) and while redraws keep being handled, the installed pipeline is
\* eventually, and from then on, the one built from the file's final content:
\* the candidate if it is valid, the fallback if it is not. A file that is
\* not UTF-8 text has no source to build from and is left out.
C4_LiveReload ==
    <>[](\/ phase = "exited"
         \/ /\ Ready
            /\ fileMTime > 0 /\ Utf8(file) =>
                  state[1].render_pipeline.fragment = Selected(<<file>>))

\* C5 as stated: every RedrawRequested handled in the Ready state results in
\* a request for the next redraw.
C5_AlwaysRequestsNext ==
    [][HandledRedraw => redraw' /\ Calls(frame', "request_redraw")]_vars

\* C5 amended: a RedrawRequested handled in the Ready state results in a
\* request for the next redraw exactly when render() acquired the surface
\* image; the request then follows present.
C5_RequestsNextIffAcquired ==
    [][HandledRedraw =>
         /\ redraw' <=> Calls(frame', "get_current_texture")
         /\ Calls(frame', "get_current_texture")
               <=> ~Calls(frame', "get_current_texture_err")
         /\ Calls(frame', "get_current_texture") =>
               /\ Last(frame').op = "request_redraw"
               /\ frame'[Len(frame') - 1].op = "present"]_vars

\* a frame was presented and the next redraw is requested
C5_Witness ==
    /\ Ready
    /\ Calls(frame, "present")
    /\ redraw

\* C6 as stated: when update() runs with two or more sources pending, the
\* pipeline it installs is built from the most recently published one.
C6_InstallsNewest ==
    [][HandledRedraw /\ Len(Pending) >= 2 =>
         /\ built' = <<Last(Pending)>>
         /\ state'[1].render_pipeline.fragment = Selected(<<Last(Pending)>>)]_vars

\* C6 amended: when update() runs with two or more sources pending, the
\* pipeline it installs is built from the oldest pending one, and the newer
\* ones stay pending, in order, for the following update() calls.
C6_InstallsOldest ==
    [][HandledRedraw /\ Len(Pending) >= 2 =>
         /\ built' = <<Head(Pending)>>
         /\ state'[1].render_pipeline.fragment = Selected(<<Head(Pending)>>)
         /\ channels'[state[1].rx].pending = Tail(Pending)]_vars

\* update() ran with two sources pending
C6_Witness ==
    /\ Ready
    /\ Len(frame) > 2
    /\ frame[1].op = "try_recv"
    /\ frame[1].size >= 2
    /\ Len(Pending) >= 1
    /\ built # <<Last(Pending)>>

\* C8: the first time value written after a pipeline rebuild is the time
\* elapsed since the rebuild completed (the write follows the rebuild in the
\* same update(), so it is zero), and the values written by update() calls
\* with no rebuild are non-decreasing.
C8_ClockRestartsAtZero ==
    [][HandledRedraw =>
         IF Pending # << >>
         THEN state'[1].buffer.time = F32(Elapsed(now', now'))
         ELSE state'[1].buffer.time >= state[1].buffer.time]_vars

\* the part of C8 the code keeps: the clock is reset to the time update()
\* polled the channel, and without a rebuild the written time does not decrease
C8_ClockSinceRebuildStarted ==
    [][HandledRedraw =>
         IF Pending # << >>
         THEN /\ state'[1].time = now
              /\ state'[1].buffer.time = F32(Elapsed(now, now'))
         ELSE /\ state'[1].time = state[1].time
              /\ state'[1].buffer.time >= state[1].buffer.time]_vars

\* render() failed to acquire the surface image in the last frame
FrameFailed == Calls(frame, "get_current_texture_err")

\* C9: a surface-acquisition error is returned before any draw, submit or
\* present; no exit is requested, the application stays Ready with the
\* pipeline, clock and surface configuration as update() left them, and it
\* goes on handling notifications.
C9_SurfaceErrorAbsorbed ==
    /\ [][HandledRedraw /\ FrameFailed' =>
            /\ Last(frame').op = "get_current_texture_err"
            /\ ~Calls(frame', "draw")
            /\ ~Calls(frame', "submit")
            /\ ~Calls(frame', "present")
            /\ ~Calls(frame', "exit")
            /\ Ready'
            /\ state'[1].config = state[1].config
            /\ state'[1].buffer.resolution = state[1].buffer.resolution
            /\ state'[1].render_pipeline.fragment =
                  IF Pending = << >> THEN state[1].render_pipeline.fragment
                  ELSE Selected(<<Head(Pending)>>)
            /\ state'[1].time = IF Pending = << >> THEN state[1].time ELSE now]_vars
    /\ [](FrameFailed /\ phase # "exited" =>
            /\ Ready
            /\ ENABLED Resized
            /\ ENABLED CloseRequested
            /\ ENABLED (Expose \/ RedrawRequested))

\* the frame failed on the surface after a reload, and the application is Ready
C9_Witness ==
    /\ Ready
    /\ FrameFailed
    /\ frame[1].size >= 1
    /\ ~redraw

\* C10: for every alignment a >= 64 that is a multiple of 4 the buffer has
\* size 2a in every state, binding 0 is at offset 0 and binding 1 at offset a,
\* every write is the time (offset 0, 4 bytes) or the resolution (offset a, 8
\* bytes), lies inside the buffer, and the two regions do not overlap.
C10_Offsets ==
    LET a == deviceAlign
        Holds(st) ==
           /\ st.alignment = a
           /\ st.buffer.size = 2 * a
           /\ st.bind_group = <<0, a>>
    IN  /\ a >= MinAlignment /\ a % 4 = 0
        /\ locals # << >> => Holds(locals[1])
        /\ state # << >> => Holds(state[1])
        /\ \A j \in 1..Len(frame) :
              frame[j].op = "write_buffer" =>
                 /\ \/ frame[j].offset = 0 /\ frame[j].size = TimeBytes
                    \/ frame[j].offset = a /\ frame[j].size = ResolutionBytes
                 /\ state # << >>
                 /\ frame[j].offset + frame[j].size <= state[1].buffer.size
        /\ 0 + TimeBytes <= a

\* the resolution was written on a device whose alignment is above the minimum
C10_Witness ==
    /\ Ready
    /\ deviceAlign > MinAlignment
    /\ Len(frame) = 2
    /\ frame[2] = Op("write_buffer", deviceAlign, ResolutionBytes)
    /\ state[1].buffer.resolution # <<0, 0>>

\* the watcher threads that are running
Producers == {i \in 1..Len(watchers) : watchers[i].pc # "done"}

\* the Receivers that are alive
Consumers == {i \in 1..Len(channels) : channels[i].connected}

\* C11: in every reachable state, also after the application was activated
\* more than once, at most one watcher thread and at most one Receiver exist.
C11_OneProducerOneConsumer ==
    /\ Cardinality(Producers) <= 1
    /\ Cardinality(Consumers) <= 1

\* the part of C11 the code keeps: once AppState::new has returned, one
\* Receiver is alive, the one App::state holds
C11_OneConsumerWhenReady ==
    Ready => Consumers = {state[1].rx}

\* the last handler was AppState::resize
FrameResized ==
    /\ Len(frame) = 2
    /\ frame[1].op = "configure"
    /\ frame[2].op = "write_buffer"

\* C12: Resize(w, h) handled twice in a row with the same (w, h) leaves,
\* after the second call, the surface configuration and the resolution payload
\* the first call left, and makes the same calls, for every (w, h), zero
\* dimensions included: applied to every reachable AppState, and on every
\* Resized step that repeats the size of the resize handled just before
\* (the resolution payload is the reported size).
C12_ResizeIdempotent ==
    /\ [](Ready =>
            \A size \in Sizes :
               LET once  == Resize(state[1], size[1], size[2])
                   twice == Resize(once.state, size[1], size[2])
               IN  /\ twice.state.config = once.state.config
                   /\ twice.state.buffer.resolution = once.state.buffer.resolution
                   /\ twice.state = once.state
                   /\ twice.frame = once.frame)
    /\ [][/\ Ready /\ Ready' /\ FrameResized
          /\ state'[1].buffer.resolution = state[1].buffer.resolution
          /\ Resized
          => state'[1].config = state[1].config /\ frame' = frame]_vars

\* a resize with a zero dimension was handled
C12_Witness ==
    /\ Ready
    /\ FrameResized
    /\ state[1].buffer.resolution = <<F32(0), F32(1)>>
    /\ state[1].config = [width |-> 1, height |-> 1]

\* the positions of the calls named name among the calls of a handler
At(ops, name) == {j \in 1..Len(ops) : ops[j].op = name}

\* the handler made one call named a and one named b, a before b
Precedes(ops, a, b) ==
    /\ Cardinality(At(ops, a)) = 1
    /\ Cardinality(At(ops, b)) = 1
    /\ \A j \in At(ops, a), k \in At(ops, b) : j < k

\* a step of a watcher thread
WatcherStep ==
    \E i \in 1..Len(watchers) : WatcherOpen(i) \/ WatcherPoll(i) \/ WatcherRead(i)

\* C13: on every RedrawRequested handled in the Ready state update() (the
\* poll of the channel, then the write of the time uniform) completes before
\* render() starts (the acquisition of the surface image); when the image is
\* acquired the time write precedes the draw and the submission, which
\* precedes present, which precedes the request for the next redraw, the
\* last call of the frame; and a step of a watcher thread makes no device,
\* queue, surface or window call and leaves the AppState (the pipeline
\* included) alone.
C13_FrameOrder ==
    /\ [][HandledRedraw =>
            LET ops == frame'
                render == At(ops, "get_current_texture")
                             \cup At(ops, "get_current_texture_err")
            IN  /\ ops[1].op = "try_recv"
                /\ ops[2] = WriteTime
                /\ At(ops, "write_buffer") = {2}
                /\ render = {3}
                /\ Calls(ops, "get_current_texture") =>
                      /\ Precedes(ops, "write_buffer", "draw")
                      /\ Precedes(ops, "draw", "submit")
                      /\ Precedes(ops, "submit", "present")
                      /\ Precedes(ops, "present", "request_redraw")
                      /\ At(ops, "request_redraw") = {Len(ops)}]_vars
    /\ [][watchers' # watchers /\ WatcherStep =>
            UNCHANGED <<frame, state, built, redraw, phase>>]_vars

\* a frame that reloaded the shader was submitted and presented while the
\* watcher thread is in its polling loop
C13_Witness ==
    /\ Ready
    /\ Calls(frame, "submit")
    /\ frame[1].op = "try_recv"
    /\ frame[1].size = 1
    /\ watchers[state[1].rx].pc = "poll"

\* C14: update() rebuilds the pipeline (from the source it received) and
\* resets the clock (to the time of the poll) if and only if a source is
\* pending at the poll: with nothing pending the installed pipeline, the
\* clock and the last built source are unchanged; the poll does not block
\* (a due RedrawRequested can always be handled, pending source or not); in
\* both cases the time uniform is written exactly once.
C14_RebuildIffPending ==
    /\ [][HandledRedraw =>
            /\ frame'[1] = Poll(Pending)
            /\ Cardinality(At(frame', "write_buffer")) = 1
            /\ frame'[2] = WriteTime
            /\ IF Pending # << >>
               THEN /\ built' = <<Head(Pending)>>
                    /\ state'[1].render_pipeline =
                          CreatePipeline(state[1].fallback_shader, built')
                    /\ state'[1].time = now
                    /\ channels'[state[1].rx].pending = Tail(Pending)
               ELSE /\ built' = built
                    /\ state'[1].render_pipeline = state[1].render_pipeline
                    /\ state'[1].time = state[1].time
                    /\ channels' = channels]_vars
    /\ [](Ready /\ redraw => ENABLED RedrawRequested)

\* after a reload and a tick of the clock, a frame found nothing pending
C14_Witness ==
    /\ Ready
    /\ built # << >>
    /\ Len(frame) > 2
    /\ frame[1] = Op("try_recv", 0, 0)
    /\ state[1].time < now
    /\ state[1].buffer.time > 0

\* C15: Resize(width, height) in the Ready state sets the surface
\* configuration to (max(width, 1), max(height, 1)), makes one configure call
\* with it and one write of the resolution uniform (8 bytes at the offset of
\* binding 1; the payload is the reported size), and leaves the installed
\* pipeline, the clock, the time uniform, the pending contents of the channel
\* and everything else unchanged.
C15_ResizeFrameEffect ==
    [][Ready /\ Resized =>
         LET width  == state'[1].buffer.resolution[1]
             height == state'[1].buffer.resolution[2]
             config == [width |-> Max(width, 1), height |-> Max(height, 1)]
         IN  /\ <<width, height>> \in Sizes
             /\ state'[1].config = config
             /\ frame' = <<Configure(config), WriteResolution(state[1].alignment)>>
             /\ state'[1].render_pipeline = state[1].render_pipeline
             /\ state'[1].time = state[1].time
             /\ state'[1].buffer.time = state[1].buffer.time
             /\ state' = <<[state[1] EXCEPT
                              !.config = config,
                              !.buffer.resolution = <<width, height>>]>>
             /\ UNCHANGED <<channels, watchers, built, now, redraw, phase,
                            locals, file, fileMTime>>]_vars

\* a resize to a zero height was handled after a reload, with the clock
\* running and a time above zero in the time uniform
C15_Witness ==
    /\ Ready
    /\ FrameResized
    /\ state[1].buffer.resolution = <<F32(1), F32(0)>>
    /\ state[1].config = [width |-> 1, height |-> 1]
    /\ state[1].buffer.time > 0
    /\ state[1].time < now
    /\ built # << >>

\* a resize was handled while a source is pending in the channel
C15_WitnessPending ==
    /\ Ready
    /\ FrameResized
    /\ state[1].buffer.resolution # <<0, 0>>
    /\ Pending # << >>

\* watcher i's read_to_string returned in this step
ReadReturned(i) ==
    /\ i \in 1..Len(watchers)
    /\ i \in 1..Len(watchers')
    /\ watchers[i].pc = "read"
    /\ watchers'[i].pc # "read"

\* C16: last advances exactly in the polls whose read succeeded and whose
\* content was sent, and then to the modification time that poll observed
\* (a newer one); a poll whose read fails, or whose send fails, leaves last
\* unchanged and the thread in its loop, so that the next poll finds the
\* file newer than last and reads again.
C16_LastSeen ==
    [][\A i \in 1..Len(watchers) :
          i \in 1..Len(watchers') =>
             LET w  == watchers[i]
                 w2 == watchers'[i]
             IN  /\ w2.last # w.last <=> ReadReturned(i) /\ Sent(i)
                 /\ w2.last # w.last =>
                       /\ w2.last = w.modified
                       /\ w2.last > w.last
                       /\ w2.last <= fileMTime
                       /\ w2.sent = w.sent + 1
                 /\ ReadReturned(i) /\ ~Sent(i) =>
                       /\ w2.last = w.last
                       /\ w2.pc = "poll"
                       /\ Changed(fileMTime', w2.last)]_vars

\* after one source was published the file changed again and the read of
\* the new content failed: last is still the first modification time
C16_Witness ==
    \E i \in 1..Len(watchers) :
       /\ watchers[i].pc = "poll"
       /\ watchers[i].sent = 1
       /\ watchers[i].last = 1
       /\ watchers[i].pos > 0
       /\ fileMTime = 2

\* the first activation failed in this step
StartupFailed == Resumed /\ phase' # "new"

\* C17: a startup failure (window, surface, adapter, device, surface
\* configuration) ends the activation with a logged error and an exit
\* request, App::state stays None and no watcher thread runs; a window
\* notification received while App::state is None changes nothing.
C17_StartupFailureExits ==
    /\ [][StartupFailed =>
            /\ frame' = <<Op("exit", 0, 0)>>
            /\ state' = << >>
            /\ watchers' = << >>
            /\ channels' = << >>]_vars
    /\ [][NotifiedUninitialized => UNCHANGED vars]_vars
    /\ [](phase = "uninit" => state = << >> /\ watchers = << >>)

\* the part of C17 the code keeps: a startup failure ends the process by an
\* exit request or by a panic, before any watcher thread is spawned and with
\* App::state None
C17_StartupFailureEnds ==
    [][StartupFailed =>
         /\ phase' = "exited"
         /\ frame' \in {<<Op("exit", 0, 0)>>, <<Op("panic", 0, 0)>>}
         /\ state' = << >>
         /\ watchers' = << >>
         /\ channels' = << >>]_vars

\* C18: at every draw issued by render() the resolution uniform in the buffer
\* is the width and height of the current surface configuration, from the
\* first frame on and after any sequence of resizes.
C18_ResolutionMatchesConfig ==
    Ready /\ Calls(frame, "draw") =>
       state[1].buffer.resolution =
          <<F32(state[1].config.width), F32(state[1].config.height)>>

\* the part of C18 the code keeps: the resolution uniform is zero until the
\* first resize and the reported size, unclamped, after it
C18_ResolutionIsReportedSize ==
    Ready =>
       \/ state[1].buffer.resolution = <<0, 0>>
       \/ state[1].config =
             [width  |-> Max(state[1].buffer.resolution[1], 1),
              height |-> Max(state[1].buffer.resolution[2], 1)]

\* the number of values the render loop received from watcher i
Received(i) == watchers[i].sent - Len(channels[i].pending)

\* C19: the channel is a queue: a publish appends one value at its end, a
\* poll of the render loop (update(), or the startup poll in new()) removes
\* the oldest value, only that one, and builds the pipeline from it, and
\* nothing else changes the channel; so sources are consumed in publish
\* order, each at most once, the number of values received (one pipeline
\* rebuild each) never exceeds the number published, and every frame that
\* finds a backlog shortens it by exactly one.
C19_ConsumedInOrderOnce ==
    /\ [](\A i \in 1..Len(channels) :
            /\ Received(i) >= 0
            /\ Received(i) <= watchers[i].sent)
    /\ [][\A i \in 1..Len(channels) :
            i \in 1..Len(channels') =>
               LET pending  == channels[i].pending
                   pending2 == channels'[i].pending
               IN  \/ /\ pending2 = pending
                      /\ Received(i)' = Received(i)
                   \/ /\ pending2 # << >>
                      /\ pending2 = Append(pending, Last(pending2))
                      /\ watchers'[i].sent = watchers[i].sent + 1
                      /\ Received(i)' = Received(i)
                   \/ /\ pending # << >>
                      /\ pending2 = Tail(pending)
                      /\ Calls(frame', "try_recv")
                      /\ built' = <<Head(pending)>>
                      /\ Received(i)' = Received(i) + 1]_vars
    /\ [][HandledRedraw /\ Pending # << >> =>
            /\ Len(Pending') = Len(Pending) - 1
            /\ built' = <<Head(Pending)>>]_vars

\* two sources were published and a backlog of two was drained by two
\* frames, the last of which found one source pending
C19_Witness ==
    /\ Ready
    /\ watchers[state[1].rx].sent = 2
    /\ Received(state[1].rx) = 2
    /\ Len(frame) > 2
    /\ frame[1] = Op("try_recv", 0, 1)

====
